---- MODULE Spec2Model ----
(***************************************************************************)
(* A model of the safety-zone classification and nearby-place aggregation  *)
(* of the Abhaya application: the NearbySafePlaces component               *)
(* (searchWithGoogleService, findNearbyPlaces, calculateZoneStatus), the   *)
(* Dashboard (checkSafetyZone, handleNearestPlacesUpdate,                  *)
(* handleLocationChange) and the geolocation part of GoogleMap.            *)
(*                                                                         *)
(* Coordinates are positions on one meridian, measured in metres of arc,   *)
(* so the great-circle distance of two positions is the absolute value of  *)
(* their difference.  Every distance is an integer number of metres; a     *)
(* value the code holds in kilometres (x / 1000) is represented by the     *)
(* same number of metres, and a comparison with 1.0 km or 5.0 km is a      *)
(* comparison with 1000 or 5000.                                           *)
(***************************************************************************)
EXTENDS Integers, Sequences, FiniteSets, TLC

VARIABLES
    provider,            \* the places provider: its response to every query
    geoSupported,        \* navigator.geolocation exists
    googleLoaded,        \* window.google is defined
    needsLocationPermission, isLoading, currentLocation, isMapLoaded, \* GoogleMap
    geoRequest,          \* the geolocation request in flight, with its closure
    userLocation, nearestSafePlaces, dashboardZoneStatus,             \* Dashboard
    safePlaces, loading, searchRadius, error, zoneStatus,      \* NearbySafePlaces
    calls,               \* the findNearbyPlaces calls, in the order they started
    attempts,            \* the searchWithGoogleService promises, in start order
    argUserLocation, argPlaces,   \* inputs of a classifier application
    retCalculate, retCheck,       \* results of calculateZoneStatus, checkSafetyZone
    emergency_contacts,  \* the user's rows of table emergency_contacts (their ids)
    lastId,              \* the id of the row inserted last
    contacts, contactsLoading, isDialogOpen, editingContact,  \* EmergencyContacts
    contactRuns,         \* the runs of fetchContacts, handleSubmit, handleDelete
    argRequest, argEmail,  \* the coordinates of a request, the email of each contact
    argDelivery,         \* what the mail provider and the database do during a request
    retBroadcast, retIndividual, retEmergency,  \* the responses of the edge functions
    user,                \* the user of useAuth in the Dashboard
    sosRuns,             \* the runs of handleSOS
    toasts,              \* the toasts of handleSOS, in the order shown
    isRecording, recordingType, recordedBlob, isUploading, isSending, \* AudioVideoMessage
    mediaRecorderRef,    \* mediaRecorderRef.current
    recorders,           \* the MediaRecorder objects, in the order created
    startRuns, sendRuns, \* the runs of startRecording and sendEmergencyMessage
    notifications        \* the send-emergency-notification requests of sendEmergencyMessage

envVars  == <<provider, geoSupported, googleLoaded>>
mapVars  == <<needsLocationPermission, isLoading, currentLocation, isMapLoaded, geoRequest>>
dashVars == <<userLocation, nearestSafePlaces, dashboardZoneStatus>>
nspVars  == <<safePlaces, loading, searchRadius, error, zoneStatus>>
runVars  == <<calls, attempts>>
zoneVars == <<argUserLocation, argPlaces, retCalculate, retCheck>>
contactVars == <<emergency_contacts, lastId, contacts, contactsLoading,
                 isDialogOpen, editingContact, contactRuns>>
mailVars == <<argRequest, argEmail, argDelivery, retBroadcast, retIndividual, retEmergency>>
sosVars  == <<user, sosRuns, toasts>>
mediaVars == <<isRecording, recordingType, recordedBlob, isUploading, isSending,
               mediaRecorderRef, recorders, startRuns, sendRuns, notifications>>
restVars == <<contactVars, mailVars, sosVars, mediaVars>>
vars     == <<envVars, mapVars, dashVars, nspVars, runVars, zoneVars, restVars>>

(***************************************************************************)
(* Values                                                                  *)
(***************************************************************************)
\* userLocation: null
NoLoc == -1
\* SafePlace.distance: absent (distance?: number)
NoDist == -1
\* let nearestDistance = Infinity
Infinity == 999999999
\* nearestPlace: null
NullPlace == [id |-> 0, type |-> "none", pos |-> 0, distance |-> 0]

UnknownStatus == [zone |-> "unknown", nearestDistance |-> 0, nearestPlace |-> NullPlace]

\* places.slice(0, 8)
TopN == 8
\* distanceInKm <= 1.0
GreenMaxKm == 1000
\* distanceInKm <= 5.0
OrangeMaxKm == 5000

Abs(x) == IF x < 0 THEN -x ELSE x

\* haversine distance of two positions of the meridian (metres)
getDistance(pos1, pos2) == Abs(pos2 - pos1)

\* place.distance as a JavaScript condition: undefined and 0 are both falsy
Truthy(d) == d # NoDist /\ d # 0

\* (a.distance || 0)
OrZero(d) == IF Truthy(d) THEN d ELSE 0

Min(a, b) == IF a <= b THEN a ELSE b

(***************************************************************************)
(* ZoneClassifier: calculateZoneStatus (NearbySafePlaces)                  *)
(***************************************************************************)
\* the forEach of calculateZoneStatus: acc = <<nearestDistance (metres), nearestPlace>>
RECURSIVE CalcScan(_, _, _)
CalcScan(places, i, acc) ==
    IF i > Len(places) THEN acc
    ELSE CalcScan(places, i + 1,
            IF Truthy(places[i].distance) /\ places[i].distance < acc[1]
            THEN <<places[i].distance, places[i]>>
            ELSE acc)

\* calculateZoneStatus without the test of userLocation
calculateZoneStatus_NoLocationTest(userLoc, places) ==
    IF Len(places) = 0 THEN UnknownStatus
    ELSE LET r == CalcScan(places, 1, <<Infinity, NullPlace>>)
         IN  [zone |-> IF r[1] <= GreenMaxKm THEN "green"
                       ELSE IF r[1] <= OrangeMaxKm THEN "orange" ELSE "red",
              nearestDistance |-> r[1], nearestPlace |-> r[2]]

calculateZoneStatus(userLoc, places) ==
    IF userLoc = NoLoc \/ Len(places) = 0 THEN UnknownStatus
    ELSE LET r == CalcScan(places, 1, <<Infinity, NullPlace>>)
             distanceInKm == r[1]
         IN  IF distanceInKm <= GreenMaxKm
             THEN [zone |-> "green", nearestDistance |-> distanceInKm, nearestPlace |-> r[2]]
             ELSE IF distanceInKm <= OrangeMaxKm
             THEN [zone |-> "orange", nearestDistance |-> distanceInKm, nearestPlace |-> r[2]]
             ELSE [zone |-> "red", nearestDistance |-> distanceInKm, nearestPlace |-> r[2]]

(***************************************************************************)
(* ZoneClassifier: checkSafetyZone (Dashboard)                             *)
(***************************************************************************)
\* place.distance ? place.distance / 1000 : getDistance(userLoc, place)
DistanceKm(userLoc, place) ==
    IF Truthy(place.distance) THEN place.distance
    ELSE getDistance(userLoc, place.pos)

RECURSIVE CheckScan(_, _, _, _)
CheckScan(userLoc, places, i, acc) ==
    IF i > Len(places) THEN acc
    ELSE CheckScan(userLoc, places, i + 1,
            IF DistanceKm(userLoc, places[i]) < acc[1]
            THEN <<DistanceKm(userLoc, places[i]), places[i]>>
            ELSE acc)

checkSafetyZone(userLoc, places) ==
    IF userLoc = NoLoc \/ Len(places) = 0 THEN UnknownStatus
    ELSE LET r == CheckScan(userLoc, places, 1, <<Infinity, NullPlace>>)
             nearestDistance == r[1]
         IN  IF nearestDistance <= GreenMaxKm
             THEN [zone |-> "green", nearestDistance |-> nearestDistance, nearestPlace |-> r[2]]
             ELSE IF nearestDistance <= OrangeMaxKm
             THEN [zone |-> "orange", nearestDistance |-> nearestDistance, nearestPlace |-> r[2]]
             ELSE [zone |-> "red", nearestDistance |-> nearestDistance, nearestPlace |-> r[2]]

(***************************************************************************)
(* The places provider and the geolocation source                          *)
(***************************************************************************)
\* GoogleMap: center = { lat: 28.6139, lng: 77.2090 }, the origin of the meridian
DefaultCenter == 0
\* a fix in town and a fix out of town
LocA == DefaultCenter + 1000
LocB == DefaultCenter + 8000
\* the fixes the geolocation source can report
GeoFixes == {LocA, LocB}
Locations == GeoFixes \cup {DefaultCenter}

\* place.geometry.location of every place id the provider knows
PlacePos == <<1000, 1400, 2001, 6000, 6001, 3000, 4000, 4500, 7000, 7500, 1400>>
PlaceIds == 1..Len(PlacePos)

\* the two radii of findNearbyPlaces
Radius20 == 20000
Radius50 == 50000
Radii == {Radius20, Radius50}

searchTypes == <<
    [type |-> "police",     keywords |-> <<"police station", "police">>],
    [type |-> "hospital",   keywords |-> <<"hospital", "emergency", "medical center">>],
    [type |-> "government", keywords |-> <<"government office", "collectorate", "fire station">>] >>

\* the nearbySearch requests of one attempt, in the order the two forEach issue them
RECURSIVE Requests(_, _)
Requests(t, k) ==
    IF t > Len(searchTypes) THEN <<>>
    ELSE IF k > Len(searchTypes[t].keywords) THEN Requests(t + 1, 1)
    ELSE <<[type |-> searchTypes[t].type, keyword |-> searchTypes[t].keywords[k]]>>
         \o Requests(t, k + 1)

QueryList == Requests(1, 1)
Queries == 1..Len(QueryList)

\* const totalSearches = searchTypes.length * searchTypes[0].keywords.length
totalSearches == Len(searchTypes) * Len(searchTypes[1].keywords)

\* a response of nearbySearch: (results, status)
Found(ids) == [status |-> "OK", results |-> ids]
ZeroResults == [status |-> "ZERO_RESULTS", results |-> <<>>]
Failed == [status |-> "ERROR", results |-> <<>>]
\* no response: the callback of the request is never invoked
NoCallback == [status |-> "NONE", results |-> <<>>]

\* the responses to the queries of one attempt: hits maps some queries to the
\* ids found, the queries of failing fail, every other query finds nothing
Table(hits, failing) ==
    [q \in Queries |->
        IF q \in DOMAIN hits THEN Found(hits[q])
        ELSE IF q \in failing THEN Failed
        ELSE ZeroResults]

Nothing == Table(<<>>, {})
Outage == Table(<<>>, Queries)

Area(t20, t50) == [r \in Radii |-> IF r = Radius20 THEN t20 ELSE t50]

\* a town around LocA, nothing near LocB
WorldTown ==
    [l \in Locations |->
        IF l = LocB THEN Area(Nothing, Table(<<>>, {2, 5}))
        ELSE Area(Table(1 :> <<1, 2>>, {}), Nothing)]

\* places only beyond 20 km of LocA, a hospital near LocB
WorldFar ==
    [l \in Locations |->
        IF l = LocB THEN Area(Table(8 :> <<9, 4>>, {1}), Nothing)
        ELSE Area(Table(<<>>, {4}), Table(3 :> <<3, 6>>, {}))]

Worlds == {WorldTown, WorldFar}

\* a city: more than eight places, some of them found by several keywords
WorldCity ==
    [l \in Locations |->
        Area(Table(1 :> <<1, 2, 3>> @@ 2 :> <<2, 4>> @@ 4 :> <<5, 6, 7, 8, 9, 10>>
                   @@ 6 :> <<11, 3>>, {5}),
             Nothing)]

\* the provider fails every query
WorldOutage == [l \in Locations |-> Area(Outage, Outage)]

SearchWorlds == Worlds \cup {WorldCity, WorldOutage}

\* the responses of table, the requests of silent left unanswered
Silent(table, silent) == [q \in Queries |-> IF q \in silent THEN NoCallback ELSE table[q]]

\* three requests of the 20 km attempt are never answered
WorldStall20 ==
    [l \in Locations |-> Area(Silent(Table(1 :> <<1, 2>>, {}), {6, 7, 8}), Nothing)]

\* one request of the 20 km attempt and three of the 50 km attempt are never answered
WorldStall50 ==
    [l \in Locations |->
        Area(Silent(Table(<<>>, {2}), {8}), Silent(Table(3 :> <<3, 6>>, {}), {1, 2, 4}))]

\* two requests are never answered: as many as the attempt does not wait for
WorldStallTwo ==
    [l \in Locations |-> Area(Silent(Table(1 :> <<1, 2>> @@ 5 :> <<4>>, {}), {3, 7}), Nothing)]

StallWorlds == {WorldStall20, WorldStall50, WorldStallTwo, WorldFar}

(***************************************************************************)
(* PlaceSearchAggregator: searchWithGoogleService                          *)
(***************************************************************************)
\* results.map(place => ({ id, type: searchType.type, lat/lng, distance }))
ToPlaces(location, type, ids) ==
    [i \in 1..Len(ids) |->
        [id |-> ids[i], type |-> type, pos |-> PlacePos[ids[i]],
         distance |-> getDistance(location, PlacePos[ids[i]])]]

\* self.findIndex(p => p.id === id)
FindIndex(self, id) ==
    CHOOSE i \in 1..Len(self) :
        /\ self[i].id = id
        /\ \A j \in 1..(i - 1) : self[j].id # id

\* allPlaces.filter((place, index, self) => index === self.findIndex(...))
RECURSIVE UniqueFrom(_, _)
UniqueFrom(self, i) ==
    IF i > Len(self) THEN <<>>
    ELSE (IF i = FindIndex(self, self[i].id) THEN <<self[i]>> ELSE <<>>)
         \o UniqueFrom(self, i + 1)

\* the filter keeping the last occurrence of every id
UniquePlaces_KeepLast(allPlaces) ==
    LET Reverse(seq) == [i \in 1..Len(seq) |-> seq[Len(seq) + 1 - i]]
    IN  Reverse(UniqueFrom(Reverse(allPlaces), 1))

\* the merged list without the filter
UniquePlaces_KeepAll(allPlaces) == allPlaces

UniquePlaces(allPlaces) == UniqueFrom(allPlaces, 1)

\* one step of the stable sort: x goes behind every element that is not farther
RECURSIVE InsertSorted(_, _)
InsertSorted(sorted, x) ==
    IF sorted = <<>> THEN <<x>>
    ELSE IF OrZero(x.distance) - OrZero(Head(sorted).distance) < 0
         THEN <<x>> \o sorted
         ELSE <<Head(sorted)>> \o InsertSorted(Tail(sorted), x)

\* the unique list without the sort
SortPlaces_AsMerged(places) == places

\* uniquePlaces.sort((a, b) => (a.distance || 0) - (b.distance || 0))
RECURSIVE SortPlaces(_)
SortPlaces(places) ==
    IF places = <<>> THEN <<>>
    ELSE InsertSorted(SortPlaces(SubSeq(places, 1, Len(places) - 1)), places[Len(places)])

\* the state of a searchWithGoogleService promise right after its requests are issued
NewAttempt(call, radius) ==
    [call |-> call, radius |-> radius, pending |-> Queries, completedSearches |-> 0,
     allPlaces |-> <<>>, resolved |-> FALSE, result |-> <<>>]

\* what the callback of query q pushes to allPlaces
Contribution(location, radius, q) ==
    LET resp == provider[location][radius][q]
    IN  IF resp.status = "OK"
        THEN ToPlaces(location, QueryList[q].type, resp.results)
        ELSE <<>>

\* the callback with the test completedSearches >= totalSearches: every late
\* callback filters, sorts and resolves again
AfterCallback_ResolvesAgain(at, location, q) ==
    LET completed == at.completedSearches + 1
        all == at.allPlaces \o Contribution(location, at.radius, q)
        done == completed >= totalSearches
    IN  [at EXCEPT !.pending = @ \ {q},
                   !.completedSearches = completed,
                   !.allPlaces = all,
                   !.resolved = @ \/ done,
                   !.result = IF done THEN SortPlaces(UniquePlaces(all)) ELSE @]

\* the attempt after the callback of query q has run
AfterCallback(at, location, q) ==
    LET completed == at.completedSearches + 1
        all == at.allPlaces \o Contribution(location, at.radius, q)
        done == completed = totalSearches
    IN  [at EXCEPT !.pending = @ \ {q},
                   !.completedSearches = completed,
                   !.allPlaces = all,
                   !.resolved = @ \/ done,
                   !.result = IF done THEN SortPlaces(UniquePlaces(all)) ELSE @]

(***************************************************************************)
(* Dashboard handlers                                                      *)
(***************************************************************************)
\* closureUserLocation is the userLocation of the render that created the handler
handleNearestPlacesUpdate(closureUserLocation, places) ==
    /\ nearestSafePlaces' = places
    /\ dashboardZoneStatus' =
          IF closureUserLocation # NoLoc /\ Len(places) > 0
          THEN checkSafetyZone(closureUserLocation, places)
          ELSE dashboardZoneStatus
    /\ UNCHANGED userLocation

\* closurePlaces is the nearestSafePlaces of the render that created the handler
handleLocationChange(location, closurePlaces) ==
    /\ userLocation' = location
    /\ dashboardZoneStatus' =
          IF Len(closurePlaces) > 0
          THEN checkSafetyZone(location, closurePlaces)
          ELSE dashboardZoneStatus
    /\ UNCHANGED nearestSafePlaces

(***************************************************************************)
(* PlaceSearchAggregator: findNearbyPlaces                                 *)
(***************************************************************************)
NoError == "null"
ErrorMsg == "Unable to fetch nearby places. Please try again."

\* findNearbyPlaces(location) without the test of window.google
findNearbyPlacesStart_NoLoadTest(location) ==
    /\ loading' = TRUE
    /\ error' = NoError
    /\ calls' = Append(calls, [location |-> location, pc |-> "await20",
                               used |-> 0, nearestPlaces |-> <<>>])
    /\ attempts' = Append(attempts, NewAttempt(Len(calls) + 1, Radius20))
    /\ UNCHANGED <<safePlaces, searchRadius, zoneStatus>>

\* findNearbyPlaces(location) with the test of window.google inverted: the
\* throw comes once the provider has loaded
findNearbyPlacesStart_ThrowsWhenLoaded(location) ==
    IF googleLoaded
    THEN /\ loading' = FALSE
         /\ error' = ErrorMsg
         /\ calls' = Append(calls, [location |-> location, pc |-> "failed",
                                    used |-> 0, nearestPlaces |-> <<>>])
         /\ attempts' = attempts
         /\ UNCHANGED <<safePlaces, searchRadius, zoneStatus>>
    ELSE findNearbyPlacesStart_NoLoadTest(location)

\* findNearbyPlaces(location) up to its first await; without window.google
\* searchWithGoogleService throws and the catch and finally blocks run at once
findNearbyPlacesStart(location) ==
    /\ IF googleLoaded
       THEN /\ loading' = TRUE
            /\ error' = NoError
            /\ calls' = Append(calls, [location |-> location, pc |-> "await20",
                                       used |-> 0, nearestPlaces |-> <<>>])
            /\ attempts' = Append(attempts, NewAttempt(Len(calls) + 1, Radius20))
       ELSE /\ loading' = FALSE
            /\ error' = ErrorMsg
            /\ calls' = Append(calls, [location |-> location, pc |-> "failed",
                                       used |-> 0, nearestPlaces |-> <<>>])
            /\ attempts' = attempts
    /\ UNCHANGED <<safePlaces, searchRadius, zoneStatus>>

\* the fallback whatever the 20 km attempt resolved
FallbackNeeded_AfterAnyList(at, places) == at.radius = Radius20

\* if (places.length === 0) after the first await: the 50 km attempt follows
FallbackNeeded(at, places) == at.radius = Radius20 /\ Len(places) = 0

\* findNearbyPlaces from the point where the awaited attempt a resolves with places
findNearbyPlacesResume(a, at, places) ==
    \E nearestPlaces \in {SubSeq(places, 1, Min(TopN, Len(places)))} :
        LET c == calls[at.call]
        IN  IF FallbackNeeded(at, places)
            THEN /\ searchRadius' = 20
                 /\ calls' = [calls EXCEPT ![at.call].pc = "await50"]
                 /\ attempts' = Append([attempts EXCEPT ![a] = at],
                                       NewAttempt(at.call, Radius50))
                 /\ UNCHANGED <<safePlaces, loading, error, zoneStatus, dashVars>>
            ELSE /\ searchRadius' = IF at.radius = Radius20 THEN 20 ELSE 50
                 /\ safePlaces' = nearestPlaces
                 /\ zoneStatus' = calculateZoneStatus(c.location, nearestPlaces)
                 /\ handleNearestPlacesUpdate(c.location, nearestPlaces)
                 /\ loading' = FALSE
                 /\ calls' = [calls EXCEPT ![at.call].pc = "done",
                                           ![at.call].used = a,
                                           ![at.call].nearestPlaces = nearestPlaces]
                 /\ attempts' = [attempts EXCEPT ![a] = at]
                 /\ UNCHANGED error

\* the provider invokes the callback of query q
Answers(location, radius, q) == provider[location][radius][q] # NoCallback

\* Callbacks that push the same places are interchangeable: of those still
\* pending the one issued first is taken to run first.  Every program state
\* is reached, up to the names of interchangeable callbacks.
FirstOfItsKind(at, location, q) ==
    \A q2 \in at.pending :
        (q2 < q /\ Answers(location, at.radius, q2))
            => Contribution(location, at.radius, q2) # Contribution(location, at.radius, q)

\* the callback of service.nearbySearch for query q of attempt a
QueryCallback(a, q) ==
    /\ a \in 1..Len(attempts)
    /\ q \in attempts[a].pending
    /\ Answers(calls[attempts[a].call].location, attempts[a].radius, q)
    /\ FirstOfItsKind(attempts[a], calls[attempts[a].call].location, q)
    /\ \E at \in {AfterCallback(attempts[a], calls[attempts[a].call].location, q)} :
          IF at.completedSearches = totalSearches
          THEN findNearbyPlacesResume(a, at, at.result)
          ELSE /\ attempts' = [attempts EXCEPT ![a] = at]
               /\ UNCHANGED <<calls, nspVars, dashVars>>
    /\ UNCHANGED <<restVars, envVars, mapVars, zoneVars>>

(***************************************************************************)
(* GoogleMap: geolocation                                                  *)
(***************************************************************************)
NoRequest == [pending |-> FALSE, places |-> <<>>]

\* the number of findNearbyPlaces calls of a run
MaxCalls == 2

CallsLeft == Len(calls) + (IF geoRequest.pending THEN 1 ELSE 0) < MaxCalls

\* a location reaches the Dashboard: setCurrentLocation, onLocationChange,
\* setIsLoading(false), and the effect of NearbySafePlaces on userLocation
LocationArrived(location, closurePlaces) ==
    /\ currentLocation' = location
    /\ isLoading' = FALSE
    /\ handleLocationChange(location, closurePlaces)
    /\ findNearbyPlacesStart(location)

getCurrentLocation ==
    /\ needsLocationPermission' = FALSE
    /\ IF geoSupported
       THEN /\ isLoading' = TRUE
            /\ geoRequest' = [pending |-> TRUE, places |-> nearestSafePlaces]
            /\ UNCHANGED <<currentLocation, dashVars, nspVars, runVars>>
       ELSE /\ LocationArrived(DefaultCenter, nearestSafePlaces)
            /\ UNCHANGED geoRequest
    /\ UNCHANGED <<restVars, envVars, isMapLoaded, zoneVars>>

\* the Enable Location button
EnableLocation ==
    /\ needsLocationPermission
    /\ CallsLeft
    /\ getCurrentLocation

\* handleLocationClick, the Update location button of the loaded map
UpdateLocation ==
    /\ ~needsLocationPermission /\ ~isLoading /\ isMapLoaded
    /\ CallsLeft
    /\ getCurrentLocation

\* the success callback of getCurrentPosition
GeoSuccess(location) ==
    /\ geoRequest.pending
    /\ LocationArrived(location, geoRequest.places)
    /\ geoRequest' = NoRequest
    /\ UNCHANGED <<restVars, envVars, needsLocationPermission, isMapLoaded, zoneVars>>

\* the error callback of getCurrentPosition
GeoError ==
    /\ geoRequest.pending
    /\ LocationArrived(DefaultCenter, geoRequest.places)
    /\ geoRequest' = NoRequest
    /\ UNCHANGED <<restVars, envVars, needsLocationPermission, isMapLoaded, zoneVars>>

\* initializeMap once loader.load() has returned
MapLoaded ==
    /\ currentLocation # NoLoc
    /\ ~isMapLoaded
    /\ googleLoaded' = TRUE
    /\ isMapLoaded' = TRUE
    /\ UNCHANGED <<restVars, provider, geoSupported, needsLocationPermission, isLoading,
                   currentLocation, geoRequest, dashVars, nspVars, runVars, zoneVars>>

\* refreshPlaces: the Retry, Refresh and Search Again buttons, hidden while loading
Refresh ==
    /\ userLocation # NoLoc
    /\ ~loading
    /\ CallsLeft
    /\ findNearbyPlacesStart(userLocation)
    /\ UNCHANGED <<restVars, envVars, mapVars, dashVars, zoneVars>>

(***************************************************************************)
(* EmergencyContacts: the table emergency_contacts, the component state    *)
(* and the runs of its asynchronous handlers.  A contact is its row id;    *)
(* the form fields and the toasts are left out.                            *)
(***************************************************************************)
\* if (!editingContact && contacts.length >= 7), disabled={contacts.length >= 7}
MaxContacts == 7

\* the clicks on Add/Update Contact and on Delete in one run of the component
MaxOperations == 2

\* editingContact: null
NoContact == 0

\* supabase.auth.getUser(): the user, or null once the session is gone
NoUser == "null"
Users == {NoUser, "user"}

\* a run of fetchContacts, handleSubmit or handleDelete, with what its closure holds
NewRun(op, pc, editing, count, id) ==
    [op |-> op, pc |-> pc, editing |-> editing, count |-> count, id |-> id,
     ok |-> TRUE, data |-> {}]

\* fetchContacts up to its first await
fetchContactsStart(runs) ==
    Append(runs, NewRun("fetch", "getUser", NoContact, 0, NoContact))

\* a finished run keeps no closure
Finish(r) ==
    [contactRuns EXCEPT ![r] = NewRun(contactRuns[r].op, "done", NoContact, 0, NoContact)]

Operations ==
    Cardinality({r \in 1..Len(contactRuns) : contactRuns[r].op # "fetch"})

\* the component right after mounting: useEffect has called fetchContacts
ContactsMounted ==
    /\ lastId = Cardinality(emergency_contacts)
    /\ emergency_contacts = 1..lastId
    /\ contacts = {}
    /\ contactsLoading = TRUE
    /\ isDialogOpen = FALSE
    /\ editingContact = NoContact
    /\ contactRuns = fetchContactsStart(<<>>)

\* the component is not in use
ContactsIdle ==
    /\ emergency_contacts = {}
    /\ lastId = 0
    /\ contacts = {}
    /\ contactsLoading = TRUE
    /\ isDialogOpen = FALSE
    /\ editingContact = NoContact
    /\ contactRuns = <<>>

\* fetchContacts after supabase.auth.getUser()
FetchGetUser(r) ==
    /\ r \in 1..Len(contactRuns)
    /\ contactRuns[r].op = "fetch"
    /\ contactRuns[r].pc = "getUser"
    /\ \E authUser \in Users :
          IF authUser = NoUser
          THEN /\ contactRuns' = Finish(r)
               /\ contactsLoading' = FALSE
          ELSE /\ contactRuns' = [contactRuns EXCEPT ![r].pc = "select"]
               /\ UNCHANGED contactsLoading
    /\ UNCHANGED <<emergency_contacts, lastId, contacts, isDialogOpen, editingContact>>

\* the select of fetchContacts as the database runs it
FetchSelect(r) ==
    /\ r \in 1..Len(contactRuns)
    /\ contactRuns[r].op = "fetch"
    /\ contactRuns[r].pc = "select"
    /\ \E ok \in BOOLEAN :
          contactRuns' = [contactRuns EXCEPT ![r].pc = "selected", ![r].ok = ok,
                              ![r].data = IF ok THEN emergency_contacts ELSE {}]
    /\ UNCHANGED <<emergency_contacts, lastId, contacts, contactsLoading,
                   isDialogOpen, editingContact>>

\* fetchContacts after the select: setContacts(data || []), setLoading(false)
FetchDone(r) ==
    /\ r \in 1..Len(contactRuns)
    /\ contactRuns[r].op = "fetch"
    /\ contactRuns[r].pc = "selected"
    /\ contacts' = IF contactRuns[r].ok THEN contactRuns[r].data ELSE contacts
    /\ contactsLoading' = FALSE
    /\ contactRuns' = Finish(r)
    /\ UNCHANGED <<emergency_contacts, lastId, isDialogOpen, editingContact>>

\* the Add Emergency Contact button, disabled at 7 listed contacts
OpenAdd ==
    /\ ~contactsLoading
    /\ ~isDialogOpen
    /\ Cardinality(contacts) < MaxContacts
    /\ isDialogOpen' = TRUE
    /\ UNCHANGED <<emergency_contacts, lastId, contacts, contactsLoading,
                   editingContact, contactRuns>>

\* the Edit button of a listed contact
handleEdit(contact) ==
    /\ ~contactsLoading
    /\ ~isDialogOpen
    /\ contact \in contacts
    /\ editingContact' = contact
    /\ isDialogOpen' = TRUE
    /\ UNCHANGED <<emergency_contacts, lastId, contacts, contactsLoading, contactRuns>>

\* onOpenChange(false): the dialog is dismissed, resetForm
CloseDialog ==
    /\ isDialogOpen
    /\ isDialogOpen' = FALSE
    /\ editingContact' = NoContact
    /\ UNCHANGED <<emergency_contacts, lastId, contacts, contactsLoading, contactRuns>>

\* the Cancel button: setIsDialogOpen(false)
CancelDialog ==
    /\ isDialogOpen
    /\ isDialogOpen' = FALSE
    /\ UNCHANGED <<emergency_contacts, lastId, contacts, contactsLoading,
                   editingContact, contactRuns>>

\* handleSubmit up to its first await; the button stays enabled during a request
handleSubmit ==
    /\ isDialogOpen
    /\ Operations < MaxOperations
    /\ contactRuns' = Append(contactRuns,
           NewRun("submit", "getUser", editingContact, Cardinality(contacts), NoContact))
    /\ UNCHANGED <<emergency_contacts, lastId, contacts, contactsLoading,
                   isDialogOpen, editingContact>>

\* handleSubmit after getUser: the limit test on the contacts of its closure
SubmitGetUser(r) ==
    /\ r \in 1..Len(contactRuns)
    /\ contactRuns[r].op = "submit"
    /\ contactRuns[r].pc = "getUser"
    /\ \E authUser \in Users :
          contactRuns' =
              IF authUser = NoUser THEN Finish(r)
              ELSE IF contactRuns[r].editing = NoContact
                        /\ contactRuns[r].count >= MaxContacts THEN Finish(r)
              ELSE [contactRuns EXCEPT ![r].pc = "write"]
    /\ UNCHANGED <<emergency_contacts, lastId, contacts, contactsLoading,
                   isDialogOpen, editingContact>>

\* the update or the insert of handleSubmit as the database runs it
SubmitWrite(r) ==
    /\ r \in 1..Len(contactRuns)
    /\ contactRuns[r].op = "submit"
    /\ contactRuns[r].pc = "write"
    /\ \E ok \in BOOLEAN :
          IF ok /\ contactRuns[r].editing = NoContact
          THEN /\ emergency_contacts' = emergency_contacts \cup {lastId + 1}
               /\ lastId' = lastId + 1
               /\ contactRuns' = [contactRuns EXCEPT ![r].pc = "written",
                                      ![r].ok = TRUE, ![r].id = lastId + 1]
          ELSE /\ contactRuns' = [contactRuns EXCEPT ![r].pc = "written", ![r].ok = ok,
                                      ![r].id = contactRuns[r].editing]
               /\ UNCHANGED <<emergency_contacts, lastId>>
    /\ UNCHANGED <<contacts, contactsLoading, isDialogOpen, editingContact>>

\* handleSubmit after the write: fetchContacts, setIsDialogOpen(false), resetForm
SubmitDone(r) ==
    /\ r \in 1..Len(contactRuns)
    /\ contactRuns[r].op = "submit"
    /\ contactRuns[r].pc = "written"
    /\ IF contactRuns[r].ok
       THEN /\ contactRuns' = fetchContactsStart(Finish(r))
            /\ isDialogOpen' = FALSE
            /\ editingContact' = NoContact
       ELSE /\ contactRuns' = Finish(r)
            /\ UNCHANGED <<isDialogOpen, editingContact>>
    /\ UNCHANGED <<emergency_contacts, lastId, contacts, contactsLoading>>

\* handleDelete of a listed contact up to its await
handleDelete(contactId) ==
    /\ ~contactsLoading
    /\ ~isDialogOpen
    /\ contactId \in contacts
    /\ Operations < MaxOperations
    /\ contactRuns' = Append(contactRuns,
           NewRun("delete", "write", NoContact, Cardinality(contacts), contactId))
    /\ UNCHANGED <<emergency_contacts, lastId, contacts, contactsLoading,
                   isDialogOpen, editingContact>>

\* the delete as the database runs it
DeleteWrite(r) ==
    /\ r \in 1..Len(contactRuns)
    /\ contactRuns[r].op = "delete"
    /\ contactRuns[r].pc = "write"
    /\ \E ok \in BOOLEAN :
          /\ emergency_contacts' =
                 IF ok THEN emergency_contacts \ {contactRuns[r].id} ELSE emergency_contacts
          /\ contactRuns' = [contactRuns EXCEPT ![r].pc = "written", ![r].ok = ok]
    /\ UNCHANGED <<lastId, contacts, contactsLoading, isDialogOpen, editingContact>>

\* handleDelete after the delete: fetchContacts
DeleteDone(r) ==
    /\ r \in 1..Len(contactRuns)
    /\ contactRuns[r].op = "delete"
    /\ contactRuns[r].pc = "written"
    /\ contactRuns' = IF contactRuns[r].ok THEN fetchContactsStart(Finish(r)) ELSE Finish(r)
    /\ UNCHANGED <<emergency_contacts, lastId, contacts, contactsLoading,
                   isDialogOpen, editingContact>>

(***************************************************************************)
(* The edge functions send-broadcast-message, send-individual-message and  *)
(* send-emergency-notification as functions of the request, the rows of    *)
(* emergency_contacts and what the mail provider does with each send.  A   *)
(* message is modelled by the location link it carries.                    *)
(***************************************************************************)
\* the contacts of one request
MaxRecipients == 2

\* latitude, longitude: undefined
NoCoord == 999
Coordinates == {NoCoord, 0, 13}

\* contact.email: undefined
NoEmail == "undefined"
Emails == {NoEmail, "address"}

\* locationUrl: null
NoUrl == <<>>

\* resend.emails.send resolves with data, resolves with { data: null, error }
\* (the provider refused the mail), or rejects (the request itself failed)
SendOutcomes == {"delivered", "refused", "rejects"}

\* a JavaScript condition on an optional number: undefined and 0 are falsy
TruthyNumber(x) == x # NoCoord /\ x # 0

\* latitude && longitude ? `https://maps.google.com/maps?q=...` : null
locationUrl(latitude, longitude) ==
    IF TruthyNumber(latitude) /\ TruthyNumber(longitude)
    THEN <<latitude, longitude>>
    ELSE NoUrl

\* the rows the emergency handler selects, and the contacts a client sends
Rows == [i \in 1..Cardinality(emergency_contacts) |-> [id |-> i, email |-> argEmail[i]]]

\* one element of emailPromises: 'failed' only when the send throws
sendEmail(contact) ==
    [contact |-> contact.id,
     status |-> IF argDelivery.outcome[contact.id] = "rejects" THEN "failed" ELSE "sent"]

\* contacts.filter(contact => contact.email).map(async (contact) => ...)
emailResults(recipients) ==
    LET withEmail == SelectSeq(recipients, LAMBDA contact : contact.email # NoEmail)
    IN  [i \in 1..Len(withEmail) |-> sendEmail(withEmail[i])]

\* emailResults.filter(r => r.status === 'sent').length
SentCount(results) == Cardinality({i \in 1..Len(results) : results[i].status = "sent"})

\* the response of the outer catch blocks
ErrorResponse(message) ==
    [status |-> 500, success |-> FALSE, error |-> message, location |-> NoUrl,
     contacts_notified |-> 0, emails_sent |-> 0, email_results |-> <<>>]

SuccessResponse(location, recipients, results) ==
    [status |-> 200, success |-> TRUE, error |-> "", location |-> location,
     contacts_notified |-> Len(recipients), emails_sent |-> SentCount(results),
     email_results |-> results]

\* send-broadcast-message
sendBroadcastMessage(request) ==
    SuccessResponse(locationUrl(request.latitude, request.longitude),
                    request.contacts, emailResults(request.contacts))

\* send-individual-message
sendIndividualMessage(request) ==
    SuccessResponse(locationUrl(request.latitude, request.longitude),
                    <<request.contact>>, emailResults(<<request.contact>>))

\* send-emergency-notification
sendEmergencyNotification(request) ==
    IF argDelivery.contactsError
    THEN ErrorResponse("Failed to fetch emergency contacts")
    ELSE IF Len(Rows) = 0
    THEN ErrorResponse("No emergency contacts found")
    ELSE SuccessResponse(locationUrl(request.latitude, request.longitude),
                         Rows, emailResults(Rows))

\* no handler has been applied
MailIdle ==
    /\ argRequest = [latitude |-> NoCoord, longitude |-> NoCoord]
    /\ argEmail = [i \in 1..MaxRecipients |-> NoEmail]
    /\ argDelivery = [outcome |-> [i \in 1..MaxRecipients |-> "delivered"],
                      contactsError |-> FALSE]
    /\ retBroadcast = <<>>
    /\ retIndividual = <<>>
    /\ retEmergency = <<>>

ApplyBroadcast ==
    /\ retBroadcast = <<>>
    /\ retBroadcast' = <<sendBroadcastMessage(
           [latitude |-> argRequest.latitude, longitude |-> argRequest.longitude,
            contacts |-> Rows])>>
    /\ UNCHANGED <<argRequest, argEmail, argDelivery, retIndividual, retEmergency>>

ApplyIndividual(i) ==
    /\ retIndividual = <<>>
    /\ i \in 1..Len(Rows)
    /\ retIndividual' = <<sendIndividualMessage(
           [latitude |-> argRequest.latitude, longitude |-> argRequest.longitude,
            contact |-> Rows[i]])>>
    /\ UNCHANGED <<argRequest, argEmail, argDelivery, retBroadcast, retEmergency>>

ApplyEmergency ==
    /\ retEmergency = <<>>
    /\ retEmergency' = <<sendEmergencyNotification(argRequest)>>
    /\ UNCHANGED <<argRequest, argEmail, argDelivery, retBroadcast, retIndividual>>

(***************************************************************************)
(* Dashboard.handleSOS: the geolocation request, the invocation of         *)
(* send-emergency-notification and the toasts                              *)
(***************************************************************************)
\* the presses of the SOS button in one run of the page
MaxSOS == 2

\* position.coords.latitude, position.coords.longitude
Positions == {0, 13}

\* supabase.functions.invoke: error is set when the request could not be made
\* or the function answered with a status other than 2xx
InvokeError(failed, response) == failed \/ response.status # 200

SOSIdle ==
    /\ user = NoUser
    /\ sosRuns = <<>>
    /\ toasts = <<>>

\* handleSOS up to getCurrentPosition; without navigator.geolocation the call
\* throws and the catch block shows the Error toast
handleSOS ==
    /\ user # NoUser
    /\ Len(sosRuns) < MaxSOS
    /\ IF geoSupported
       THEN /\ sosRuns' = Append(sosRuns, [pc |-> "locating", located |-> FALSE,
                                           request |-> [latitude |-> NoCoord,
                                                        longitude |-> NoCoord],
                                           error |-> FALSE])
            /\ UNCHANGED toasts
       ELSE /\ sosRuns' = Append(sosRuns, [pc |-> "done", located |-> FALSE,
                                           request |-> [latitude |-> NoCoord,
                                                        longitude |-> NoCoord],
                                           error |-> FALSE])
            /\ toasts' = Append(toasts, [title |-> "Error", run |-> Len(sosRuns) + 1])
    /\ UNCHANGED user

\* the success callback of getCurrentPosition up to its await
SOSPosition(r, latitude, longitude) ==
    /\ r \in 1..Len(sosRuns)
    /\ sosRuns[r].pc = "locating"
    /\ sosRuns' = [sosRuns EXCEPT ![r].pc = "invoking", ![r].located = TRUE,
                       ![r].request = [latitude |-> latitude, longitude |-> longitude]]
    /\ UNCHANGED <<user, toasts>>

\* the error callback of getCurrentPosition up to its await
SOSGeoError(r) ==
    /\ r \in 1..Len(sosRuns)
    /\ sosRuns[r].pc = "locating"
    /\ sosRuns' = [sosRuns EXCEPT ![r].pc = "invoking"]
    /\ UNCHANGED <<user, toasts>>

\* either callback after supabase.functions.invoke: the success callback
\* throws on error, the error callback does not read error
SOSInvoked(r) ==
    /\ r \in 1..Len(sosRuns)
    /\ sosRuns[r].pc = "invoking"
    /\ \E failed \in BOOLEAN :
       \E invokeError \in {InvokeError(failed, sendEmergencyNotification(sosRuns[r].request))} :
          /\ sosRuns' = [sosRuns EXCEPT ![r].pc = "done", ![r].error = invokeError]
          /\ toasts' = IF sosRuns[r].located /\ invokeError
                       THEN toasts
                       ELSE Append(toasts, [title |-> "SOS Activated", run |-> r])
    /\ UNCHANGED user

(***************************************************************************)
(* AudioVideoMessage: the recorders, the component state and the runs of   *)
(* startRecording and sendEmergencyMessage.  A blob is the number of the    *)
(* recorder that made it; recordedUrl is set and cleared with recordedBlob *)
(* and is left out, as are the timer and the toasts.                       *)
(***************************************************************************)
\* the presses of a Record button and of Send Emergency Alert in one run
MaxRecordings == 2
MaxSends == 2

\* recordingType: null, recordedBlob: null, mediaRecorderRef.current: null
NoType == "null"
NoBlob == 0
NoRecorder == 0
RecordingTypes == {"audio", "video"}

MediaIdle ==
    /\ isRecording = FALSE
    /\ recordingType = NoType
    /\ recordedBlob = NoBlob
    /\ isUploading = FALSE
    /\ isSending = FALSE
    /\ mediaRecorderRef = NoRecorder
    /\ recorders = <<>>
    /\ startRuns = <<>>
    /\ sendRuns = <<>>
    /\ notifications = <<>>

\* a Record button, shown while nothing is recording and no blob is held:
\* startRecording up to getUserMedia
startRecording(type) ==
    /\ ~isRecording
    /\ recordedBlob = NoBlob
    /\ Len(startRuns) < MaxRecordings
    /\ startRuns' = Append(startRuns, [type |-> type, pc |-> "getUserMedia"])
    /\ UNCHANGED <<isRecording, recordingType, recordedBlob, isUploading, isSending,
                   mediaRecorderRef, recorders, sendRuns, notifications>>

\* startRecording after getUserMedia: a new recorder is started
StartResolved(s) ==
    /\ s \in 1..Len(startRuns)
    /\ startRuns[s].pc = "getUserMedia"
    /\ startRuns' = [startRuns EXCEPT ![s].pc = "done"]
    /\ recorders' = Append(recorders, [type |-> startRuns[s].type, state |-> "recording"])
    /\ mediaRecorderRef' = Len(recorders) + 1
    /\ isRecording' = TRUE
    /\ recordingType' = startRuns[s].type
    /\ UNCHANGED <<recordedBlob, isUploading, isSending, sendRuns, notifications>>

\* startRecording when getUserMedia rejects: the catch block
StartRejected(s) ==
    /\ s \in 1..Len(startRuns)
    /\ startRuns[s].pc = "getUserMedia"
    /\ startRuns' = [startRuns EXCEPT ![s].pc = "done"]
    /\ UNCHANGED <<isRecording, recordingType, recordedBlob, isUploading, isSending,
                   mediaRecorderRef, recorders, sendRuns, notifications>>

\* the Stop Recording button, shown while isRecording
stopRecording ==
    /\ isRecording
    /\ mediaRecorderRef # NoRecorder
    /\ recorders' = [recorders EXCEPT ![mediaRecorderRef].state = "stopping"]
    /\ isRecording' = FALSE
    /\ UNCHANGED <<recordingType, recordedBlob, isUploading, isSending,
                   mediaRecorderRef, startRuns, sendRuns, notifications>>

\* mediaRecorder.onstop, fired by the browser some time after stop()
OnStop(k) ==
    /\ k \in 1..Len(recorders)
    /\ recorders[k].state = "stopping"
    /\ recorders' = [recorders EXCEPT ![k].state = "inactive"]
    /\ recordedBlob' = k
    /\ UNCHANGED <<isRecording, recordingType, isUploading, isSending,
                   mediaRecorderRef, startRuns, sendRuns, notifications>>

\* the Delete button, shown with a blob and disabled while uploading or sending
clearRecording ==
    /\ recordedBlob # NoBlob
    /\ ~isUploading
    /\ ~isSending
    /\ recordedBlob' = NoBlob
    /\ recordingType' = NoType
    /\ UNCHANGED <<isRecording, isUploading, isSending, mediaRecorderRef,
                   recorders, startRuns, sendRuns, notifications>>

\* a run of sendEmergencyMessage that ends in its catch block
SendFailedRun(r, uploaded) ==
    [sendRuns EXCEPT ![r].pc = "failed", ![r].uploaded = uploaded]

\* sendEmergencyMessage once uploadMediaToStorage has returned mediaUrl
\* (null after a failure): if (!mediaUrl) throw, else the second getUser
AfterUpload_NoUrlTest(r, uploaded) ==
    /\ sendRuns' = [sendRuns EXCEPT ![r].pc = "sendGetUser", ![r].uploaded = uploaded]
    /\ isUploading' = FALSE
    /\ UNCHANGED isSending

AfterUpload(r, uploaded) ==
    /\ isUploading' = FALSE
    /\ IF uploaded
       THEN /\ sendRuns' = [sendRuns EXCEPT ![r].pc = "sendGetUser", ![r].uploaded = TRUE]
            /\ UNCHANGED isSending
       ELSE /\ sendRuns' = SendFailedRun(r, FALSE)
            /\ isSending' = FALSE

\* the Send Emergency Alert button, shown with a blob and disabled while
\* uploading or sending: sendEmergencyMessage up to the getUser of the upload
sendEmergencyMessage ==
    /\ recordedBlob # NoBlob
    /\ ~isUploading
    /\ ~isSending
    /\ recordingType # NoType
    /\ Len(sendRuns) < MaxSends
    /\ isSending' = TRUE
    /\ isUploading' = TRUE
    /\ sendRuns' = Append(sendRuns, [pc |-> "uploadGetUser", blob |-> recordedBlob,
                                     type |-> recordingType, uploaded |-> FALSE])
    /\ UNCHANGED <<isRecording, recordingType, recordedBlob, mediaRecorderRef,
                   recorders, startRuns, notifications>>

\* uploadMediaToStorage after getUser
UploadGetUser(r) ==
    /\ r \in 1..Len(sendRuns)
    /\ sendRuns[r].pc = "uploadGetUser"
    /\ \E authUser \in Users :
          IF authUser = NoUser
          THEN AfterUpload(r, FALSE)
          ELSE /\ sendRuns' = [sendRuns EXCEPT ![r].pc = "upload"]
               /\ UNCHANGED <<isUploading, isSending>>
    /\ UNCHANGED <<isRecording, recordingType, recordedBlob, mediaRecorderRef,
                   recorders, startRuns, notifications>>

\* uploadMediaToStorage after the upload
UploadDone(r) ==
    /\ r \in 1..Len(sendRuns)
    /\ sendRuns[r].pc = "upload"
    /\ \E stored \in BOOLEAN : AfterUpload(r, stored)
    /\ UNCHANGED <<isRecording, recordingType, recordedBlob, mediaRecorderRef,
                   recorders, startRuns, notifications>>

\* sendEmergencyMessage after its getUser: the notification request is made
SendGetUser(r) ==
    /\ r \in 1..Len(sendRuns)
    /\ sendRuns[r].pc = "sendGetUser"
    /\ \E authUser \in Users :
          IF authUser = NoUser
          THEN /\ sendRuns' = SendFailedRun(r, sendRuns[r].uploaded)
               /\ isSending' = FALSE
               /\ UNCHANGED notifications
          ELSE /\ sendRuns' = [sendRuns EXCEPT ![r].pc = "invoke"]
               /\ notifications' = Append(notifications,
                      [run |-> r, uploaded |-> sendRuns[r].uploaded])
               /\ UNCHANGED isSending
    /\ UNCHANGED <<isRecording, recordingType, recordedBlob, isUploading,
                   mediaRecorderRef, recorders, startRuns>>

\* sendEmergencyMessage after supabase.functions.invoke
SendInvoked(r) ==
    /\ r \in 1..Len(sendRuns)
    /\ sendRuns[r].pc = "invoke"
    /\ isSending' = FALSE
    /\ \E invokeError \in BOOLEAN :
          IF invokeError
          THEN /\ sendRuns' = SendFailedRun(r, sendRuns[r].uploaded)
               /\ UNCHANGED <<recordedBlob, recordingType>>
          ELSE /\ sendRuns' = [sendRuns EXCEPT ![r].pc = "sent"]
               /\ recordedBlob' = NoBlob
               /\ recordingType' = NoType
    /\ UNCHANGED <<isRecording, isUploading, mediaRecorderRef, recorders,
                   startRuns, notifications>>

\* the components not in use
RestIdle ==
    /\ ContactsIdle
    /\ MailIdle
    /\ SOSIdle
    /\ MediaIdle

(***************************************************************************)
(* The application                                                         *)
(***************************************************************************)
ZoneIdle ==
    /\ argUserLocation = NoLoc
    /\ argPlaces = <<>>
    /\ retCalculate = <<>>
    /\ retCheck = <<>>

Mounted ==
    /\ needsLocationPermission = TRUE
    /\ isLoading = FALSE
    /\ currentLocation = NoLoc
    /\ isMapLoaded = FALSE
    /\ geoRequest = NoRequest
    /\ userLocation = NoLoc
    /\ nearestSafePlaces = <<>>
    /\ dashboardZoneStatus = UnknownStatus
    /\ safePlaces = <<>>
    /\ loading = FALSE
    /\ searchRadius = 20
    /\ error = NoError
    /\ zoneStatus = UnknownStatus
    /\ calls = <<>>
    /\ attempts = <<>>

Init ==
    /\ provider \in Worlds
    /\ geoSupported \in BOOLEAN
    /\ googleLoaded \in BOOLEAN
    /\ Mounted
    /\ ZoneIdle
    /\ RestIdle

Next ==
    \/ EnableLocation
    \/ UpdateLocation
    \/ \E location \in GeoFixes : GeoSuccess(location)
    \/ GeoError
    \/ MapLoaded
    \/ Refresh
    \/ \E a \in 1..Len(attempts) : \E q \in Queries : QueryCallback(a, q)

Spec == Init /\ [][Next]_vars

\* the application in a freshly loaded page: window.google is not yet defined
InitFresh ==
    /\ provider \in Worlds
    /\ geoSupported \in BOOLEAN
    /\ googleLoaded = FALSE
    /\ Mounted
    /\ ZoneIdle
    /\ RestIdle

SpecFresh == InitFresh /\ [][Next]_vars

(***************************************************************************)
(* One findNearbyPlaces call: the state right after the first location has *)
(* arrived in a page where window.google is defined, then the callbacks    *)
(***************************************************************************)
SearchStarted ==
    /\ geoSupported = TRUE
    /\ googleLoaded = TRUE
    /\ needsLocationPermission = FALSE
    /\ isLoading = FALSE
    /\ isMapLoaded = FALSE
    /\ geoRequest = NoRequest
    /\ \E location \in Locations :
          /\ currentLocation = location
          /\ userLocation = location
          /\ calls = <<[location |-> location, pc |-> "await20",
                        used |-> 0, nearestPlaces |-> <<>>]>>
    /\ attempts = <<NewAttempt(1, Radius20)>>
    /\ nearestSafePlaces = <<>>
    /\ dashboardZoneStatus = UnknownStatus
    /\ safePlaces = <<>>
    /\ loading = TRUE
    /\ searchRadius = 20
    /\ error = NoError
    /\ zoneStatus = UnknownStatus
    /\ ZoneIdle
    /\ RestIdle

InitSearch ==
    /\ provider \in SearchWorlds
    /\ SearchStarted

NextSearch ==
    \E a \in 1..Len(attempts) : \E q \in Queries : QueryCallback(a, q)

SpecSearch == InitSearch /\ [][NextSearch]_vars

(***************************************************************************)
(* One findNearbyPlaces call with a provider that leaves requests          *)
(* unanswered; every callback the provider does invoke runs eventually     *)
(***************************************************************************)
InitStall ==
    /\ provider \in StallWorlds
    /\ SearchStarted

SpecStall == InitStall /\ [][NextSearch]_vars /\ WF_vars(NextSearch)

(***************************************************************************)
(* The classifiers as functions: inputs drawn from the lists the           *)
(* aggregator can deliver (unique ids, ascending by distance || 0)         *)
(***************************************************************************)
\* the length of a classified list
MaxLen == 2

\* the places a classified list is drawn from, and the search centres
ZoneIds == {1, 2, 3, 4, 5}
ZoneCentres == {DefaultCenter, LocA}

\* a place as a search around centre delivers it, or without its distance
ZonePlaces(centre) ==
    {[id |-> i, type |-> "police", pos |-> PlacePos[i],
      distance |-> IF carried THEN getDistance(centre, PlacePos[i]) ELSE NoDist] :
        i \in ZoneIds, carried \in BOOLEAN}

ZoneLists ==
    UNION {
        {s \in UNION {[1..n -> ZonePlaces(centre)] : n \in 0..MaxLen} :
            \A i, j \in 1..Len(s) : i < j =>
                /\ s[i].id # s[j].id
                /\ OrZero(s[i].distance) <= OrZero(s[j].distance)}
        : centre \in ZoneCentres}

ZoneUserLocations == {NoLoc, LocA, DefaultCenter}

InitZone ==
    /\ provider = WorldOutage
    /\ geoSupported = TRUE
    /\ googleLoaded = FALSE
    /\ Mounted
    /\ argUserLocation \in ZoneUserLocations
    /\ argPlaces \in ZoneLists
    /\ retCalculate = <<>>
    /\ retCheck = <<>>
    /\ RestIdle

ApplyCalculateZoneStatus ==
    /\ retCalculate = <<>>
    /\ retCalculate' = <<calculateZoneStatus(argUserLocation, argPlaces)>>
    /\ UNCHANGED <<restVars, envVars, mapVars, dashVars, nspVars, runVars,
                   argUserLocation, argPlaces, retCheck>>

ApplyCheckSafetyZone ==
    /\ retCheck = <<>>
    /\ retCheck' = <<checkSafetyZone(argUserLocation, argPlaces)>>
    /\ UNCHANGED <<restVars, envVars, mapVars, dashVars, nspVars, runVars,
                   argUserLocation, argPlaces, retCalculate>>

NextZone == ApplyCalculateZoneStatus \/ ApplyCheckSafetyZone

SpecZone == InitZone /\ [][NextZone]_vars

(***************************************************************************)
(* EmergencyContacts alone, mounted for a user who has up to 7 contacts    *)
(***************************************************************************)
\* the search and the classifiers are not in use
AppIdle ==
    /\ provider = WorldOutage
    /\ geoSupported = TRUE
    /\ googleLoaded = FALSE
    /\ Mounted
    /\ ZoneIdle

InitContacts ==
    /\ AppIdle
    /\ emergency_contacts \in {1..n : n \in 0..MaxContacts}
    /\ ContactsMounted
    /\ MailIdle
    /\ SOSIdle
    /\ MediaIdle

Untouched == UNCHANGED <<envVars, mapVars, dashVars, nspVars, runVars, zoneVars>>

OnlyContacts == Untouched /\ UNCHANGED <<mailVars, sosVars, mediaVars>>

NextContacts ==
    \/ \E r \in 1..Len(contactRuns) : FetchGetUser(r) /\ OnlyContacts
    \/ \E r \in 1..Len(contactRuns) : FetchSelect(r) /\ OnlyContacts
    \/ \E r \in 1..Len(contactRuns) : FetchDone(r) /\ OnlyContacts
    \/ OpenAdd /\ OnlyContacts
    \/ \E contact \in contacts : handleEdit(contact) /\ OnlyContacts
    \/ CloseDialog /\ OnlyContacts
    \/ CancelDialog /\ OnlyContacts
    \/ handleSubmit /\ OnlyContacts
    \/ \E r \in 1..Len(contactRuns) : SubmitGetUser(r) /\ OnlyContacts
    \/ \E r \in 1..Len(contactRuns) : SubmitWrite(r) /\ OnlyContacts
    \/ \E r \in 1..Len(contactRuns) : SubmitDone(r) /\ OnlyContacts
    \/ \E contactId \in contacts : handleDelete(contactId) /\ OnlyContacts
    \/ \E r \in 1..Len(contactRuns) : DeleteWrite(r) /\ OnlyContacts
    \/ \E r \in 1..Len(contactRuns) : DeleteDone(r) /\ OnlyContacts

SpecContacts == InitContacts /\ [][NextContacts]_vars

(***************************************************************************)
(* The edge functions applied to the requests a client can send            *)
(***************************************************************************)
InitMail ==
    /\ AppIdle
    /\ emergency_contacts \in {1..n : n \in 0..MaxRecipients}
    /\ lastId = Cardinality(emergency_contacts)
    /\ contacts = {}
    /\ contactsLoading = TRUE
    /\ isDialogOpen = FALSE
    /\ editingContact = NoContact
    /\ contactRuns = <<>>
    /\ argRequest \in [latitude : Coordinates, longitude : Coordinates]
    /\ argEmail \in [1..MaxRecipients -> Emails]
    /\ argDelivery \in [outcome : [1..MaxRecipients -> SendOutcomes],
                        contactsError : BOOLEAN]
    /\ retBroadcast = <<>>
    /\ retIndividual = <<>>
    /\ retEmergency = <<>>
    /\ SOSIdle
    /\ MediaIdle

NextMail ==
    \/ ApplyBroadcast /\ Untouched /\ UNCHANGED <<contactVars, sosVars, mediaVars>>
    \/ \E i \in 1..MaxRecipients : ApplyIndividual(i) /\ Untouched /\ UNCHANGED <<contactVars, sosVars, mediaVars>>
    \/ ApplyEmergency /\ Untouched /\ UNCHANGED <<contactVars, sosVars, mediaVars>>

SpecMail == InitMail /\ [][NextMail]_vars

(***************************************************************************)
(* The SOS button of the Dashboard, with the emergency handler behind it   *)
(***************************************************************************)
OnlySOS == UNCHANGED <<provider, googleLoaded, mapVars, dashVars, nspVars, runVars,
                       zoneVars, contactVars, mailVars, mediaVars>>

InitSOS ==
    /\ provider = WorldOutage
    /\ geoSupported \in BOOLEAN
    /\ googleLoaded = FALSE
    /\ Mounted
    /\ ZoneIdle
    /\ emergency_contacts \in {1..n : n \in 0..MaxRecipients}
    /\ lastId = Cardinality(emergency_contacts)
    /\ contacts = {}
    /\ contactsLoading = TRUE
    /\ isDialogOpen = FALSE
    /\ editingContact = NoContact
    /\ contactRuns = <<>>
    /\ argRequest = [latitude |-> NoCoord, longitude |-> NoCoord]
    /\ argEmail \in [1..MaxRecipients -> Emails]
    /\ argDelivery \in [outcome : [1..MaxRecipients -> {"delivered"}],
                        contactsError : BOOLEAN]
    /\ retBroadcast = <<>>
    /\ retIndividual = <<>>
    /\ retEmergency = <<>>
    /\ user \in Users
    /\ sosRuns = <<>>
    /\ toasts = <<>>
    /\ MediaIdle

NextSOS ==
    \/ handleSOS /\ UNCHANGED geoSupported /\ OnlySOS
    \/ \E r \in 1..Len(sosRuns) : \E latitude, longitude \in Positions :
          SOSPosition(r, latitude, longitude) /\ UNCHANGED geoSupported /\ OnlySOS
    \/ \E r \in 1..Len(sosRuns) : SOSGeoError(r) /\ UNCHANGED geoSupported /\ OnlySOS
    \/ \E r \in 1..Len(sosRuns) : SOSInvoked(r) /\ UNCHANGED geoSupported /\ OnlySOS

SpecSOS == InitSOS /\ [][NextSOS]_vars

(***************************************************************************)
(* AudioVideoMessage alone                                                 *)
(***************************************************************************)
OnlyMedia == Untouched /\ UNCHANGED <<contactVars, mailVars, sosVars>>

InitMedia ==
    /\ AppIdle
    /\ ContactsIdle
    /\ MailIdle
    /\ SOSIdle
    /\ MediaIdle

NextMedia ==
    \/ \E type \in RecordingTypes : startRecording(type) /\ OnlyMedia
    \/ \E s \in 1..Len(startRuns) : StartResolved(s) /\ OnlyMedia
    \/ \E s \in 1..Len(startRuns) : StartRejected(s) /\ OnlyMedia
    \/ stopRecording /\ OnlyMedia
    \/ \E k \in 1..Len(recorders) : OnStop(k) /\ OnlyMedia
    \/ clearRecording /\ OnlyMedia
    \/ sendEmergencyMessage /\ OnlyMedia
    \/ \E r \in 1..Len(sendRuns) : UploadGetUser(r) /\ OnlyMedia
    \/ \E r \in 1..Len(sendRuns) : UploadDone(r) /\ OnlyMedia
    \/ \E r \in 1..Len(sendRuns) : SendGetUser(r) /\ OnlyMedia
    \/ \E r \in 1..Len(sendRuns) : SendInvoked(r) /\ OnlyMedia

SpecMedia == InitMedia /\ [][NextMedia]_vars

(***************************************************************************)
(* Properties                                                              *)
(***************************************************************************)
Ids(places) == {places[i].id : i \in 1..Len(places)}

UniqueIds(places) ==
    \A i, j \in 1..Len(places) : i # j => places[i].id # places[j].id

Ascending(places) ==
    \A i, j \in 1..Len(places) : i < j => places[i].distance <= places[j].distance

AttemptLocation(a) == calls[attempts[a].call].location

\* the ids the provider returns to the queries of attempt a with status OK
FoundIds(a) ==
    UNION {Ids(Contribution(AttemptLocation(a), attempts[a].radius, q)) : q \in Queries}

\* attempt a has just resolved: its deciding callback was the last one to run
JustResolved(a) ==
    attempts[a].resolved /\ attempts[a].completedSearches = totalSearches

Finished(c) == calls[c].pc \in {"done", "failed"}

\* C1: a radius attempt resolves only after each of its queries has completed:
\* a resolved attempt has no pending callback, and every place returned by a
\* successful query of the attempt is, by id, in the resolved list.
C1_ResolvesAfterAllQueries ==
    \A a \in 1..Len(attempts) :
        attempts[a].resolved =>
            /\ attempts[a].pending = {}
            /\ FoundIds(a) \subseteq Ids(attempts[a].result)

\* C2: once two overlapping searches have both completed, the displayed list,
\* the reported radius and the zone status are those of the search started last.
C2_LatestSearchWins ==
    (/\ Len(calls) >= 2
     /\ \A c \in 1..Len(calls) : calls[c].pc = "done")
    => LET last == calls[Len(calls)]
       IN  /\ safePlaces = last.nearestPlaces
           /\ searchRadius * 1000 = attempts[last.used].radius
           /\ zoneStatus = calculateZoneStatus(last.location, last.nearestPlaces)

\* C3: the Dashboard's zoneStatus is the classifier's verdict on the current
\* userLocation and the current place list, Unknown for an empty list.
C3_ZoneFollowsInputs ==
    dashboardZoneStatus = checkSafetyZone(userLocation, nearestSafePlaces)

\* an empty list has been delivered and the verdict of an earlier list is shown
C3_StaleAfterEmptyList ==
    nearestSafePlaces = <<>> /\ dashboardZoneStatus.zone # "unknown"

\* the list the classifier is given carries a distance for every place
AllCarryDistance(places) == \A i \in 1..Len(places) : places[i].distance # NoDist

MinDistance(places) ==
    CHOOSE d \in {places[i].distance : i \in 1..Len(places)} :
        \A i \in 1..Len(places) : d <= places[i].distance

Classifiable ==
    /\ argUserLocation # NoLoc
    /\ Len(argPlaces) > 0
    /\ AllCarryDistance(argPlaces)

Returned == retCalculate \o retCheck

\* C4: for a known location and a non-empty list the classifier's nearestPlace is
\* an element of the list at minimal distance and nearestDistance is that
\* distance, a place at distance 0 included.
C4_NearestIsMinimal ==
    Classifiable =>
        \A k \in 1..Len(Returned) :
            /\ \E i \in 1..Len(argPlaces) : Returned[k].nearestPlace = argPlaces[i]
            /\ Returned[k].nearestPlace.distance = MinDistance(argPlaces)
            /\ Returned[k].nearestDistance = MinDistance(argPlaces)

ZoneOf(d) ==
    IF d <= GreenMaxKm THEN "green" ELSE IF d <= OrangeMaxKm THEN "orange" ELSE "red"

\* C5: for a known location and a non-empty list the zone is green iff the
\* nearest distance d is at most 1.0 km, orange iff 1.0 km < d <= 5.0 km, red
\* iff d > 5.0 km.
C5_ZoneOfNearestDistance ==
    Classifiable =>
        \A k \in 1..Len(Returned) : Returned[k].zone = ZoneOf(MinDistance(argPlaces))

\* C6: the classifier returns unknown iff the list is empty or the location is
\* absent, then with nearestDistance 0 and no nearestPlace; otherwise the zone
\* is green, orange or red.
C6_UnknownIffNoInput ==
    \A k \in 1..Len(Returned) :
        /\ Returned[k].zone = "unknown" <=> (Len(argPlaces) = 0 \/ argUserLocation = NoLoc)
        /\ Returned[k].zone = "unknown" =>
              Returned[k].nearestDistance = 0 /\ Returned[k].nearestPlace = NullPlace
        /\ Returned[k].zone \in {"unknown", "green", "orange", "red"}

\* both classifiers applied to a non-empty list without a location
C6_Witness ==
    /\ Len(Returned) = 2
    /\ argUserLocation = NoLoc
    /\ Len(argPlaces) > 0
    /\ Returned[1].zone = "unknown"

\* a step in which the geolocation source fails, or is not there
GeolocationFails ==
    \/ GeoError
    \/ ((EnableLocation \/ UpdateLocation) /\ ~geoSupported)

\* C7: when the geolocation source fails or is not available, no location is
\* handed to the place search and the classifier, and the zone status stays.
C7_NoSubstituteLocation ==
    [][GeolocationFails =>
          UNCHANGED <<userLocation, calls, attempts, dashboardZoneStatus, zoneStatus>>]_vars

\* C8: no list resolved by an attempt and no list delivered by findNearbyPlaces
\* holds one place id twice.
C8_UniqueIds ==
    /\ \A a \in 1..Len(attempts) : UniqueIds(attempts[a].result)
    /\ \A c \in 1..Len(calls) : UniqueIds(calls[c].nearestPlaces)
    /\ UniqueIds(safePlaces)
    /\ UniqueIds(nearestSafePlaces)

\* an attempt resolves a merged list in which several queries returned one place
C8_Witness ==
    \E a \in 1..Len(attempts) :
        /\ JustResolved(a)
        /\ ~UniqueIds(attempts[a].allPlaces)
        /\ Len(attempts[a].result) >= 2

\* C9: every list delivered by findNearbyPlaces is ascending by distance.
C9_Ascending ==
    /\ \A c \in 1..Len(calls) : Ascending(calls[c].nearestPlaces)
    /\ Ascending(safePlaces)
    /\ Ascending(nearestSafePlaces)

\* a call delivers several places that the provider returned out of order
C9_Witness ==
    \E c \in 1..Len(calls) :
        /\ calls[c].pc = "done"
        /\ Len(calls[c].nearestPlaces) >= 3
        /\ safePlaces = calls[c].nearestPlaces
        /\ JustResolved(calls[c].used)
        /\ ~Ascending(attempts[calls[c].used].allPlaces)

\* C10: the delivered list has min(8, number of unique places found by the
\* queries of the attempt used) entries, and no omitted place is strictly
\* nearer than a delivered one.
C10_NearestEight ==
    \A c \in 1..Len(calls) :
        calls[c].pc = "done" =>
            LET found == FoundIds(calls[c].used)
                list == calls[c].nearestPlaces
            IN  /\ Len(list) = Min(TopN, Cardinality(found))
                /\ \A id \in found \ Ids(list) : \A i \in 1..Len(list) :
                      getDistance(calls[c].location, PlacePos[id]) >= list[i].distance

\* the attempts of call c, in the order they were started
AttemptsOf(c) == SelectSeq(attempts, LAMBDA at : at.call = c)

\* C11: a call makes the 20 km attempt first; it makes the 50 km attempt iff
\* the 20 km attempt resolved with an empty list, and makes it once: never a
\* third attempt.
C11_FallbackOnceIffEmpty ==
    \A c \in 1..Len(calls) :
        LET mine == AttemptsOf(c)
        IN  /\ Len(mine) <= 2
            /\ Len(mine) >= 1 => mine[1].radius = Radius20
            /\ Len(mine) = 2 <=>
                  (Len(mine) >= 1 /\ mine[1].resolved /\ mine[1].result = <<>>)
            /\ Len(mine) = 2 => mine[2].radius = Radius50

\* a call whose two attempts have both resolved, the late callbacks of the
\* first attempt included
C11_Witness ==
    \E c \in 1..Len(calls) :
        LET mine == AttemptsOf(c)
        IN  /\ Len(mine) = 2
            /\ mine[1].pending = {}
            /\ mine[2].resolved
            /\ calls[c].pc = "done"

\* the place list card is rendered: a location, not loading, no error
ListShown == userLocation # NoLoc /\ ~loading /\ error = NoError

\* C12: whenever a place list is shown, the reported searchRadius is the radius
\* of the attempt that produced the list: some completed call delivered exactly
\* this list (at most 8 entries) from an attempt of the reported radius.
C12_RadiusOfShownList ==
    ListShown =>
        \E c \in 1..Len(calls) :
            /\ calls[c].pc = "done"
            /\ safePlaces = calls[c].nearestPlaces
            /\ Len(safePlaces) <= TopN
            /\ searchRadius * 1000 = attempts[calls[c].used].radius

\* the list of a 50 km attempt is shown while searchRadius reads 20
C12_FallbackListUnderRadius20 ==
    /\ ListShown
    /\ searchRadius = 20
    /\ Len(safePlaces) > 0
    /\ \A c \in 1..Len(calls) :
          (calls[c].pc = "done" /\ safePlaces = calls[c].nearestPlaces)
              => attempts[calls[c].used].radius = Radius50

\* the queries of attempt a the provider answers without places
Unsuccessful(a) ==
    {q \in Queries : provider[AttemptLocation(a)][attempts[a].radius][q].status # "OK"}

\* an attempt with unsuccessful queries resolves once its callbacks have run,
\* and its list holds no place that no successful query returned
ResolvesDespiteFailures(a) ==
    /\ attempts[a].pending = {} => attempts[a].resolved
    /\ Ids(attempts[a].result) \subseteq FoundIds(a)

\* the list of a resolved attempt holds the places of the successful queries
HoldsSuccessfulPlaces(a) ==
    attempts[a].resolved => FoundIds(a) \subseteq Ids(attempts[a].result)

\* no call that reached the provider ends with the error set
FailuresNotSurfaced ==
    \A c \in 1..Len(calls) : Len(AttemptsOf(c)) > 0 => calls[c].pc # "failed"

\* C13: a query that fails or returns nothing contributes no places and does
\* not abort its attempt: the attempt still resolves, its list contains the
\* places of the queries that succeeded, and no error is surfaced.
C13_FailedQueryContributesNothing ==
    /\ \A a \in 1..Len(attempts) :
          Unsuccessful(a) # {} =>
              ResolvesDespiteFailures(a) /\ HoldsSuccessfulPlaces(a)
    /\ FailuresNotSurfaced /\ error = NoError

\* the part of C13 that does not depend on the number of callbacks awaited
C13_ExceptMissedQueries ==
    /\ \A a \in 1..Len(attempts) :
          Unsuccessful(a) # {} => ResolvesDespiteFailures(a)
    /\ FailuresNotSurfaced /\ error = NoError

\* no query of attempt a is answered with status OK
EveryQueryFails(a) ==
    \A q \in Queries :
        provider[AttemptLocation(a)][attempts[a].radius][q].status
            \notin {"OK", "ZERO_RESULTS"}

\* C14: if every query of a radius attempt fails, findNearbyPlaces ends with the
\* error set and does not report a successful search without places.
C14_TotalFailureEscalates ==
    \A a \in 1..Len(attempts) :
        (EveryQueryFails(a) /\ attempts[a].resolved /\ ~loading) =>
            /\ error # NoError
            /\ calls[attempts[a].call].pc # "done"

\* the error card with its Retry button is rendered
RetryShown == userLocation # NoLoc /\ ~loading /\ error # NoError

LastCallFailed == Len(calls) > 0 /\ calls[Len(calls)].pc = "failed"

\* a step nobody clicked for: the map script finishes loading, or a callback
AutomaticStep ==
    \/ MapLoaded
    \/ \E a \in 1..Len(attempts) : \E q \in Queries : QueryCallback(a, q)

\* C15: a findNearbyPlaces call that starts while the provider is not loaded
\* issues no query and ends at once with the error set, loading false and the
\* Retry button shown; after it no search starts unless the user acts.
C15_NotLoadedFailsWithRetry ==
    [][/\ (Len(calls') > Len(calls) /\ ~googleLoaded) =>
             /\ attempts' = attempts
             /\ calls' = Append(calls, calls'[Len(calls')])
             /\ calls'[Len(calls')].pc = "failed"
             /\ error' = ErrorMsg
             /\ RetryShown'
       /\ (LastCallFailed /\ AutomaticStep) => UNCHANGED <<calls, attempts, error, loading>>
      ]_vars

\* a call has failed for want of the provider, the provider has loaded since,
\* and the Retry button is still waiting
C15_Witness ==
    /\ LastCallFailed
    /\ googleLoaded
    /\ attempts = <<>>
    /\ RetryShown

C17_EveryCallFinishes ==
    <>(~loading /\ \A c \in 1..Len(calls) : Finished(c))

\* every callback the provider invokes has run and the call is still loading
C17_StalledForever ==
    /\ loading
    /\ \A a \in 1..Len(attempts) : \A q \in attempts[a].pending :
          ~Answers(AttemptLocation(a), attempts[a].radius, q)

\* the distance of a place as the claim has it: the carried value, or the
\* distance from userLoc to the place when none is carried
DistanceOrRecomputed(userLoc, place) ==
    IF place.distance # NoDist THEN place.distance
    ELSE getDistance(userLoc, place.pos)

NearestOf(userLoc, places) ==
    CHOOSE d \in {DistanceOrRecomputed(userLoc, places[i]) : i \in 1..Len(places)} :
        \A i \in 1..Len(places) : d <= DistanceOrRecomputed(userLoc, places[i])

\* the verdict r scans every place of the list, a carried distance as it is
\* and a missing one recomputed from the location
ScansEveryPlace(r) ==
    /\ r.nearestDistance = NearestOf(argUserLocation, argPlaces)
    /\ \E i \in 1..Len(argPlaces) :
          /\ r.nearestPlace = argPlaces[i]
          /\ DistanceOrRecomputed(argUserLocation, argPlaces[i]) = r.nearestDistance

\* C18: a place without a distance takes part in the nearest-place scan with
\* its distance recomputed from userLocation; a carried distance is used as it
\* is.
C18_MissingDistanceRecomputed ==
    (argUserLocation # NoLoc /\ Len(argPlaces) > 0) =>
        \A k \in 1..Len(Returned) : ScansEveryPlace(Returned[k])

\* the same for checkSafetyZone alone, on lists that carry no distance 0
C18_CheckSafetyZoneRecomputes ==
    (/\ argUserLocation # NoLoc /\ Len(argPlaces) > 0
     /\ \A i \in 1..Len(argPlaces) : argPlaces[i].distance # 0) =>
        \A k \in 1..Len(retCheck) : ScansEveryPlace(retCheck[k])

\* calculateZoneStatus finds no nearest place in a list without distances
C18_UncarriedPlacesSkipped ==
    /\ argUserLocation # NoLoc /\ Len(argPlaces) > 0
    /\ \A i \in 1..Len(argPlaces) : argPlaces[i].distance = NoDist
    /\ Len(retCalculate) = 1
    /\ retCalculate[1].nearestPlace = NullPlace
    /\ retCalculate[1].zone = "red"

\* C19: of the occurrences of one place id in the merged list of an attempt,
\* the resolved list keeps the first, with its category and fields, and drops
\* the later ones.
C19_FirstOccurrenceKept ==
    \A a \in 1..Len(attempts) :
        attempts[a].resolved =>
            \A i \in 1..Len(attempts[a].result) :
                /\ attempts[a].result[i] =
                       attempts[a].allPlaces[FindIndex(attempts[a].allPlaces,
                                                       attempts[a].result[i].id)]
                /\ \A j \in 1..Len(attempts[a].result) :
                       attempts[a].result[j].id = attempts[a].result[i].id => j = i

\* an attempt resolves a merged list that holds one place first as found by a
\* government keyword and later as found by a police keyword
C19_Witness ==
    \E a \in 1..Len(attempts) :
        /\ JustResolved(a)
        /\ \E i, j \in 1..Len(attempts[a].allPlaces) :
              /\ i < j
              /\ attempts[a].allPlaces[i].id = attempts[a].allPlaces[j].id
              /\ attempts[a].allPlaces[i].type = "government"
              /\ attempts[a].allPlaces[j].type = "police"
              /\ \E k \in 1..Len(attempts[a].result) :
                    attempts[a].result[k] = attempts[a].allPlaces[i]

\* allPlaces after the callbacks of the first n requests have run in the order
\* the requests were issued
RECURSIVE MergedInIssueOrder(_, _, _)
MergedInIssueOrder(location, radius, n) ==
    IF n = 0 THEN <<>>
    ELSE MergedInIssueOrder(location, radius, n - 1) \o Contribution(location, radius, n)

\* the list attempt a resolves when its callbacks complete in issue order
IssueOrderResult(a) ==
    SortPlaces(UniquePlaces(
        MergedInIssueOrder(AttemptLocation(a), attempts[a].radius, totalSearches)))

\* the category attached to every id of a list
Categories(places) == {<<places[i].id, places[i].type>> : i \in 1..Len(places)}

\* C20: for fixed provider responses the ids of the resolved list and the
\* category attached to each id are the same for every order in which the
\* callbacks complete: they are those of the completion in issue order.
C20_OrderIndependent ==
    \A a \in 1..Len(attempts) :
        attempts[a].resolved =>
            /\ Ids(attempts[a].result) = Ids(IssueOrderResult(a))
            /\ Categories(attempts[a].result) = Categories(IssueOrderResult(a))

\* a resolved list with the ids of the completion in issue order and another
\* category for one of them
C20_CategoryFollowsOrder ==
    \E a \in 1..Len(attempts) :
        /\ attempts[a].resolved
        /\ Ids(attempts[a].result) = Ids(IssueOrderResult(a))
        /\ Categories(attempts[a].result) # Categories(IssueOrderResult(a))

\* C21: for every location and every place list checkSafetyZone and
\* calculateZoneStatus return the same zone and the same nearest place.
C21_ClassifiersAgree ==
    (Len(retCalculate) = 1 /\ Len(retCheck) = 1) =>
        /\ retCalculate[1].zone = retCheck[1].zone
        /\ retCalculate[1].nearestPlace = retCheck[1].nearestPlace

\* the same on lists in which every place carries a positive distance
C21_AgreeOnPositiveDistances ==
    (/\ Len(retCalculate) = 1 /\ Len(retCheck) = 1
     /\ \A i \in 1..Len(argPlaces) : Truthy(argPlaces[i].distance)) =>
        retCalculate[1] = retCheck[1]

\* call c has started and its finally block has not run
InFlight(c) == calls[c].pc \in {"await20", "await50"}

\* C24: loading is true whenever at least one findNearbyPlaces call is in
\* flight, overlapping calls included.
C24_LoadingWhileInFlight ==
    (\E c \in 1..Len(calls) : InFlight(c)) => loading

\* C27: the list an attempt resolved with is never changed afterwards: a
\* callback that completes after the attempt has resolved leaves the resolved
\* list as it is and does not resume the call a second time.
C27_ResolvedListFrozen ==
    [][\A a \in 1..Len(attempts) :
          attempts[a].resolved =>
              /\ attempts'[a].resolved
              /\ attempts'[a].result = attempts[a].result
              /\ attempts'[a].completedSearches # attempts[a].completedSearches =>
                     /\ calls'[attempts[a].call] = calls[attempts[a].call]
                     /\ Len(attempts') = Len(attempts)
      ]_vars

\* every late callback of a resolved attempt has run, and brought places the
\* resolved list does not hold
C27_Witness ==
    \E a \in 1..Len(attempts) :
        /\ attempts[a].resolved
        /\ attempts[a].pending = {}
        /\ attempts[a].completedSearches > totalSearches
        /\ ~(Ids(attempts[a].allPlaces) \subseteq Ids(attempts[a].result))

\* C22: after any interleaving of add, edit and delete, two add submissions
\* issued before the list is re-fetched included, the number of emergency
\* contacts stored for the user never exceeds 7
C22_AtMostSevenStored == Cardinality(emergency_contacts) <= MaxContacts

\* the contacts of the request that have an email address, and those among
\* them whose send the provider accepted
WithEmail == {i \in 1..Len(Rows) : Rows[i].email # NoEmail}
SendSucceeded == {i \in WithEmail : argDelivery.outcome[i] = "delivered"}

EmergencyContactsRead == ~argDelivery.contactsError /\ Len(Rows) > 0

SendFailed == WithEmail # SendSucceeded

\* every send was attempted, the request succeeded and the counts are ordered
Tolerated(response) ==
    /\ response.success
    /\ {response.email_results[i].contact : i \in 1..Len(response.email_results)} = WithEmail
    /\ response.emails_sent <= Cardinality(WithEmail)
    /\ Cardinality(WithEmail) <= response.contacts_notified

\* C28: in the broadcast and emergency handlers a failed send to one contact
\* neither prevents the other sends nor fails the request: the response is a
\* success whose emails_sent is the number of contacts whose send succeeded,
\* with emails_sent <= contacts having an email address <= contacts_notified
C28_FailedSendToleratedAndCounted ==
    /\ Len(retBroadcast) = 1 =>
           /\ Tolerated(retBroadcast[1])
           /\ retBroadcast[1].emails_sent = Cardinality(SendSucceeded)
    /\ (Len(retEmergency) = 1 /\ EmergencyContactsRead) =>
           /\ Tolerated(retEmergency[1])
           /\ retEmergency[1].emails_sent = Cardinality(SendSucceeded)

\* C28, the part that holds: a failed send neither prevents the other sends
\* nor fails the request, and the counts are ordered
C28_FailedSendTolerated ==
    /\ Len(retBroadcast) = 1 => Tolerated(retBroadcast[1])
    /\ (Len(retEmergency) = 1 /\ EmergencyContactsRead) => Tolerated(retEmergency[1])

C28_Witness ==
    /\ Len(retBroadcast) = 1
    /\ Len(retEmergency) = 1
    /\ EmergencyContactsRead
    /\ SendFailed
    /\ SendSucceeded # {}

BothPresent == argRequest.latitude # NoCoord /\ argRequest.longitude # NoCoord

LinkIffBothPresent(ret) ==
    (Len(ret) = 1 /\ ret[1].success) => (ret[1].location # NoUrl <=> BothPresent)

\* C29: the broadcast, individual and emergency handlers put the location
\* link into the message exactly when the request holds both latitude and
\* longitude, whatever their values (0 included)
C29_LocationLinkIffBothPresent ==
    /\ LinkIffBothPresent(retBroadcast)
    /\ LinkIffBothPresent(retIndividual)
    /\ LinkIffBothPresent(retEmergency)

Confirmations == {t \in 1..Len(toasts) : toasts[t].title = "SOS Activated"}

\* C23: handleSOS shows the SOS Activated confirmation only when its
\* send-emergency-notification request completed without error, on the
\* geolocation-success path and on the geolocation-failure path
C23_ConfirmationOnlyAfterSuccess ==
    \A t \in Confirmations : ~sosRuns[toasts[t].run].error

\* C23, the geolocation-success path alone
C23_ConfirmationOnlyAfterSuccessWhenLocated ==
    \A t \in Confirmations :
        sosRuns[toasts[t].run].located => ~sosRuns[toasts[t].run].error

\* C26: isRecording is never true while a recorded blob is held, for every
\* interleaving of startRecording, stopRecording and the onstop callback
C26_NotRecordingWhileBlobHeld == ~(isRecording /\ recordedBlob # NoBlob)

\* a step in which run r of sendEmergencyMessage ends because the upload
\* failed or because getUser returned no user
EndsBeforeRequest(r) ==
    /\ sendRuns[r].pc \in {"uploadGetUser", "upload", "sendGetUser"}
    /\ sendRuns'[r].pc = "failed"

\* C25: sendEmergencyMessage invokes send-emergency-notification only after
\* the media upload has succeeded; if the upload fails or no user is
\* authenticated, no notification request is made, the recording is kept and
\* isSending and isUploading return to false
C25_RequestOnlyAfterUpload ==
    [][/\ \A n \in 1..Len(notifications') : notifications'[n].uploaded
       /\ \A r \in 1..Len(sendRuns) : EndsBeforeRequest(r) =>
             /\ notifications' = notifications
             /\ \A n \in 1..Len(notifications) : notifications[n].run # r
             /\ recordedBlob' = recordedBlob
             /\ recordedBlob' # NoBlob
             /\ recordingType' = recordingType
             /\ ~isSending'
             /\ ~isUploading']_vars

\* one run has ended on a failed upload with its recording kept, another has
\* made its request
C25_Witness ==
    /\ \E r \in 1..Len(sendRuns) :
          /\ sendRuns[r].pc = "failed"
          /\ ~sendRuns[r].uploaded
          /\ recordedBlob = sendRuns[r].blob
    /\ notifications # <<>>
    /\ ~isSending
    /\ ~isUploading

====
